---- MODULE Spec2Model ----
(***************************************************************************)
(* Model of the attendance ingestion worker                                *)
(* (AttendanceProcessor.process_attendance) together with the three        *)
(* external stores it talks to: the Cassandra table `attendance`, the      *)
(* Redis Bloom filter of known student ids and the per-lecture Redis       *)
(* HyperLogLog keys.  The HyperLogLog is modelled as an exact set.         *)
(* AttendanceProcessor.get_attendance_stats and the AttendanceAnalyzer     *)
(* read those stores.  A timestamp is a number of hours since the Monday   *)
(* 00:00 that starts the week.                                             *)
(***************************************************************************)
EXTENDS FiniteSets, Integers, Sequences, TLC

\* ---------------------------------------------------------------- bounds
NumStudents == 2
NumTimestamps == 2
MaxDeliveries == 2

Students == 1..NumStudents

\* entry_time of a punctual student on day d (days count from 0): 8 AM.
EntryTime(d) == 24 * d + 8

\* Points in time of the events of the topic, one per lecture day.
Timestamps == {EntryTime(d) : d \in 0..(NumTimestamps - 1)}

\* f"LECTURE_{entry_time.strftime('%Y%m%d')}": the lecture of the day of t.
LectureOf(t) == <<"LECTURE", t \div 24>>

Lectures == {LectureOf(t) : t \in Timestamps}

\* The processes that share the subscription "attendance_processor".
Workers == {"w1", "w2"}

\* The one process that `python attendance_processor.py` starts.
Solo == {"w1"}

VARIABLES
  pc,          \* per worker: position in the loop of process_attendance
  msg,         \* per worker: the message returned by consumer.receive()
  is_valid,    \* per worker: the local is_valid of the current iteration
  calls,       \* per worker: the calls made while handling the current delivery
  store,       \* rows of the Cassandra table attendance
  hll,         \* Redis HyperLogLog keys: lecture_id -> set of added student ids
  bloom,       \* ids for which BF.EXISTS answers 1
  delivered,   \* number of receive calls that returned a message
  insertCount, \* per primary key: number of INSERTs that completed
  acks,        \* number of acknowledge calls that returned
  stats,       \* the value get_attendance_stats returned last
  insights,    \* the value generate_insights returned
  printed,     \* what print_insights wrote
  topic        \* per followed message: where the subscription has it

vars == <<pc, msg, is_valid, calls, store, hll, bloom, delivered, insertCount,
          acks, stats, insights, printed, topic>>

\* What the pipeline never touches: the results of the readers.
reads == <<stats, insights, printed>>

\* get_attendance_stats has not returned anything (yet).
NoStats == [phase |-> "idle"]

\* generate_insights has not run / print_insights has not run.
NotRun == <<"not run">>

NoMsg == [json |-> FALSE, fields |-> {}]

\* The subscription as a specification that follows no single message sees
\* it: receive() may return any message of the topic at any time.
NoTopic == <<>>

\* ------------------------------------------------------------- messages
\* The fields the generator puts into every message.
AllFields == {"student_id", "timestamp", "lecture_id", "is_valid", "event_type"}

\* A message as json.dumps(...) of the generator builds it.
Message(s, l, t, v) ==
  [json |-> TRUE, fields |-> AllFields, student_id |-> s, lecture_id |-> l,
   timestamp |-> <<"iso", t>>, is_valid |-> v, event_type |-> "entry"]

\* Damaged variants of a message: not JSON at all, one field missing, or a
\* timestamp that is not in ISO format.
Damaged(m) ==
  {[m EXCEPT !.json = FALSE]}
  \cup {[m EXCEPT !.fields = AllFields \ {f}] :
          f \in {"student_id", "lecture_id", "timestamp", "event_type"}}
  \cup {[m EXCEPT !.timestamp = <<"text", m.timestamp[2]>>]}

\* The messages of the topic that are complete: any student, any day, the
\* lecture of that day, and either value of the producer's is_valid.
WellFormed ==
  {Message(s, LectureOf(t), t, v) : s \in Students, t \in Timestamps, v \in BOOLEAN}

\* What receive may return: a complete message or a damaged one.
Payloads == WellFormed \cup Damaged(Message(1, LectureOf(EntryTime(0)), EntryTime(0), TRUE))

\* ParseOk with the timestamp left unchecked.
ParseOkNoTimestamp(m) ==
  /\ m.json
  /\ "student_id" \in m.fields
  /\ "lecture_id" \in m.fields

\* Lines 103-106: json.loads, data['student_id'], data['lecture_id'],
\* datetime.fromisoformat(data['timestamp']) all succeed.
ParseOk(m) ==
  /\ m.json
  /\ "student_id" \in m.fields
  /\ "lecture_id" \in m.fields
  /\ "timestamp" \in m.fields
  /\ m.timestamp[1] = "iso"

\* datetime.fromisoformat: the ISO text to the point in time it denotes.
FromIsoFormat(ts) == ts[2]

\* ---------------------------------------------------------------- stores
\* PRIMARY KEY ((lecture_id), timestamp, student_id)
PrimaryKey(row) == <<row.lecture_id, row.timestamp, row.student_id>>

Keys == Lectures \X Timestamps \X Students

\* StoreInsert that appends, as if is_valid were part of the key.
StoreInsertAppend(tbl, row) == tbl \cup {row}

\* StoreInsert as INSERT ... IF NOT EXISTS: a row that is there stays.
StoreInsertIfNotExists(tbl, row) ==
  IF \E r \in tbl : PrimaryKey(r) = PrimaryKey(row) THEN tbl ELSE tbl \cup {row}

\* INSERT INTO attendance: Cassandra writes the row under its primary key,
\* replacing the columns of a row that already has that key.
StoreInsert(tbl, row) ==
  {r \in tbl : PrimaryKey(r) # PrimaryKey(row)} \cup {row}

\* BF.EXISTS
BfExists(s) == s \in bloom

\* PfAdd as a SET of the key: the new member replaces the old ones.
PfAddOverwrite(h, l, s) == (l :> {s}) @@ h

\* PFADD hll_key student_id: creates the key when it does not exist.
PfAdd(h, l, s) ==
  IF l \in DOMAIN h THEN [h EXCEPT ![l] = @ \cup {s}] ELSE h @@ (l :> {s})

\* PfCount that counts the students of the lecture's rows in the table.
PfCountScan(h, l) == Cardinality({r.student_id : r \in {x \in store : x.lecture_id = l}})

\* PFCOUNT hll_key: 0 for a key that does not exist.
PfCount(h, l) == IF l \in DOMAIN h THEN Cardinality(h[l]) ELSE 0

\* Row that takes is_valid from the message.
RowTrusted(w) ==
  [student_id |-> msg[w].student_id, lecture_id |-> msg[w].lecture_id,
   timestamp |-> FromIsoFormat(msg[w].timestamp), is_valid |-> msg[w].is_valid]

\* RowOf that copies the is_valid the producer sent.
RowOfTrusted(m, v) ==
  [student_id |-> m.student_id, lecture_id |-> m.lecture_id,
   timestamp |-> FromIsoFormat(m.timestamp), is_valid |-> m.is_valid]

\* Lines 116-124: the values bound to the INSERT for message m when the
\* oracle answered v.
RowOf(m, v) ==
  [student_id |-> m.student_id, lecture_id |-> m.lecture_id,
   timestamp |-> FromIsoFormat(m.timestamp), is_valid |-> v]

\* The row the worker writes for the message in hand.
Row(w) == RowOf(msg[w], is_valid[w])

Call(op, ok, v) == [op |-> op, ok |-> ok, valid |-> v]

Log(w, op, ok, v) == calls' = [calls EXCEPT ![w] = Append(@, Call(op, ok, v))]

Goto(w, p) == pc' = [pc EXCEPT ![w] = p]

\* The subscription's side of receive, acknowledge and negative_acknowledge
\* for a message it is followed for: the message waits for a delivery, is
\* in flight to the consumer that received it, or is acknowledged.  A
\* message that was negatively acknowledged, or whose consumer went away
\* (_cleanup closes the client), waits again.
Waiting(m) == m \in DOMAIN topic /\ topic[m] = "waiting"

Mark(m, status) ==
  topic' = IF m \in DOMAIN topic THEN [topic EXCEPT ![m] = status] ELSE topic

\* The counters of the runs count as far as MaxDeliveries, the number of
\* deliveries after which a run that follows no message is cut off.
Counted(n) == IF n < MaxDeliveries THEN n + 1 ELSE n

\* ------------------------------------------------------------------ Init
Init ==
  /\ pc = [w \in Workers |-> "receive"]
  /\ msg = [w \in Workers |-> NoMsg]
  /\ is_valid = [w \in Workers |-> FALSE]
  /\ calls = [w \in Workers |-> <<>>]
  /\ store = {}
  /\ hll = <<>>
  /\ bloom = {}
  /\ delivered = 0
  /\ insertCount = [k \in Keys |-> 0]
  /\ acks = 0
  /\ stats = NoStats
  /\ insights = NotRun
  /\ printed = NotRun
  /\ topic = NoTopic

\* --------------------------------------------------------------- actions
\* generate_student_data: BF.ADD of a valid student id.
BfAdd(s) ==
  /\ s \notin bloom
  /\ bloom' = bloom \cup {s}
  /\ UNCHANGED <<reads, topic, acks, pc, msg, is_valid, calls, store, hll, delivered, insertCount>>

\* msg = self.consumer.receive(): the transport hands over any message of
\* the topic, a new one or one it delivers again.
Receive(w, m) ==
  /\ pc[w] = "receive"
  /\ IF topic = NoTopic THEN delivered < MaxDeliveries ELSE Waiting(m)
  /\ delivered' = Counted(delivered)
  /\ Mark(m, "in flight")
  /\ msg' = [msg EXCEPT ![w] = m]
  /\ is_valid' = [is_valid EXCEPT ![w] = FALSE]
  /\ calls' = [calls EXCEPT ![w] = <<>>]
  /\ Goto(w, "parse")
  /\ UNCHANGED <<reads, acks, store, hll, bloom, insertCount>>

\* Lines 103-106.
Parse(w) ==
  /\ pc[w] = "parse"
  /\ IF ParseOk(msg[w])
       THEN Log(w, "parse", TRUE, FALSE) /\ Goto(w, "oracle")
       ELSE Log(w, "parse", FALSE, FALSE) /\ Goto(w, "nack")
  /\ UNCHANGED <<reads, topic, acks, msg, is_valid, store, hll, bloom, delivered, insertCount>>

\* Lines 109-113: is_valid = bool(BF.EXISTS ...).
Oracle(w) ==
  /\ pc[w] = "oracle"
  /\ is_valid' = [is_valid EXCEPT ![w] = BfExists(msg[w].student_id)]
  /\ Log(w, "bf_exists", TRUE, BfExists(msg[w].student_id))
  /\ Goto(w, "insert")
  /\ UNCHANGED <<reads, topic, acks, msg, store, hll, bloom, delivered, insertCount>>

\* Lines 109-113, the Redis command raises.
OracleFail(w) ==
  /\ pc[w] = "oracle"
  /\ Log(w, "bf_exists", FALSE, FALSE)
  /\ Goto(w, "nack")
  /\ UNCHANGED <<reads, topic, acks, msg, is_valid, store, hll, bloom, delivered, insertCount>>

\* AfterInsert that never reaches the PFADD.
AfterInsertNever(v) == "ack"

\* AfterInsert without the test of is_valid.
AfterInsertAlways(v) == "pfadd"

\* Line 127: if is_valid.
AfterInsert(v) == IF v THEN "pfadd" ELSE "ack"

\* Lines 116-124: the INSERT, then the test of line 127.
Insert(w) ==
  /\ pc[w] = "insert"
  /\ store' = StoreInsert(store, Row(w))
  /\ insertCount' = [insertCount EXCEPT ![PrimaryKey(Row(w))] = Counted(@)]
  /\ Log(w, "insert", TRUE, Row(w).is_valid)
  /\ Goto(w, AfterInsert(is_valid[w]))
  /\ UNCHANGED <<reads, topic, acks, msg, is_valid, hll, bloom, delivered>>

\* InsertFail with the exception swallowed.
InsertFailSwallowed(w) ==
  /\ pc[w] = "insert"
  /\ Log(w, "insert", FALSE, is_valid[w])
  /\ Goto(w, AfterInsert(is_valid[w]))
  /\ UNCHANGED <<reads, topic, acks, msg, is_valid, store, hll, bloom, delivered, insertCount>>

\* Lines 121-124, session.execute raises.
InsertFail(w) ==
  /\ pc[w] = "insert"
  /\ Log(w, "insert", FALSE, is_valid[w])
  /\ Goto(w, "nack")
  /\ UNCHANGED <<reads, topic, acks, msg, is_valid, store, hll, bloom, delivered, insertCount>>

\* Lines 128-129.
HllAdd(w) ==
  /\ pc[w] = "pfadd"
  /\ hll' = PfAdd(hll, msg[w].lecture_id, msg[w].student_id)
  /\ Log(w, "pfadd", TRUE, is_valid[w])
  /\ Goto(w, "ack")
  /\ UNCHANGED <<reads, topic, acks, msg, is_valid, store, bloom, delivered, insertCount>>

\* HllAddFail with the exception swallowed.
HllAddFailSwallowed(w) ==
  /\ pc[w] = "pfadd"
  /\ Log(w, "pfadd", FALSE, is_valid[w])
  /\ Goto(w, "ack")
  /\ UNCHANGED <<reads, topic, acks, msg, is_valid, store, hll, bloom, delivered, insertCount>>

\* HllAddFail that drops the lecture's key when pfadd raises.
HllAddFailReset(w) ==
  /\ pc[w] = "pfadd"
  /\ hll' = [l \in DOMAIN hll \ {msg[w].lecture_id} |-> hll[l]]
  /\ Log(w, "pfadd", FALSE, is_valid[w])
  /\ Goto(w, "nack")
  /\ UNCHANGED <<reads, topic, acks, msg, is_valid, store, bloom, delivered, insertCount>>

\* Line 129, pfadd raises.
HllAddFail(w) ==
  /\ pc[w] = "pfadd"
  /\ Log(w, "pfadd", FALSE, is_valid[w])
  /\ Goto(w, "nack")
  /\ UNCHANGED <<reads, topic, acks, msg, is_valid, store, hll, bloom, delivered, insertCount>>

\* Line 132.
Ack(w) ==
  /\ pc[w] = "ack"
  /\ Log(w, "ack", TRUE, is_valid[w])
  /\ acks' = Counted(acks)
  /\ Mark(msg[w], "acknowledged")
  /\ Goto(w, "receive")
  /\ UNCHANGED <<reads, msg, is_valid, store, hll, bloom, delivered, insertCount>>

\* AfterAckFail with acknowledge outside the handler's reach.
AfterAckFailIgnored == "receive"

\* Where an exception raised by acknowledge goes: line 134 catches it.
AfterAckFail == "nack"

\* Line 132, acknowledge raises.
AckFail(w) ==
  /\ pc[w] = "ack"
  /\ Log(w, "ack", FALSE, is_valid[w])
  /\ Goto(w, AfterAckFail)
  /\ UNCHANGED <<reads, topic, acks, msg, is_valid, store, hll, bloom, delivered, insertCount>>

\* Line 136.
Nack(w) ==
  /\ pc[w] = "nack"
  /\ Log(w, "nack", TRUE, is_valid[w])
  /\ Mark(msg[w], "waiting")
  /\ Goto(w, "receive")
  /\ UNCHANGED <<reads, acks, msg, is_valid, store, hll, bloom, delivered, insertCount>>

\* Line 136, negative_acknowledge raises inside the except block: nothing
\* but KeyboardInterrupt is caught at line 138, so the exception leaves
\* process_attendance through the finally clause.
NackFail(w) ==
  /\ pc[w] = "nack"
  /\ Log(w, "nack", FALSE, is_valid[w])
  /\ Mark(msg[w], "waiting")
  /\ Goto(w, "crashed")
  /\ UNCHANGED <<reads, acks, msg, is_valid, store, hll, bloom, delivered, insertCount>>

\* KeyboardInterrupt: `except Exception` (line 134) does not catch it, so
\* wherever the worker is it leaves the loop through lines 138-141.
Interrupt(w) ==
  /\ pc[w] \notin {"stopped", "crashed"}
  /\ IF pc[w] = "receive" THEN UNCHANGED topic ELSE Mark(msg[w], "waiting")
  /\ Goto(w, "stopped")
  /\ UNCHANGED <<reads, acks, msg, is_valid, calls, store, hll, bloom, delivered, insertCount>>

\* Lines 103-136 in one piece, for a run in which no call raises: what
\* handling message m does to the table tbl and the estimators h, and the
\* completion call it ends with.
Process(m, tbl, h) ==
  IF ~ParseOk(m)
    THEN [store |-> tbl, hll |-> h, completion |-> "negative_acknowledge"]
    ELSE LET v == BfExists(m.student_id)
         IN [store |-> StoreInsert(tbl, RowOf(m, v)),
             hll |-> IF AfterInsert(v) = "pfadd"
                       THEN PfAdd(h, m.lecture_id, m.student_id) ELSE h,
             completion |-> "acknowledge"]

\* One worker, the generator filling the Bloom filter beside it.
Next ==
  \/ \E s \in Students : BfAdd(s)
  \/ \E w \in Solo, m \in Payloads : Receive(w, m)
  \/ \E w \in Solo : Parse(w)
  \/ \E w \in Solo : Oracle(w)
  \/ \E w \in Solo : OracleFail(w)
  \/ \E w \in Solo : Insert(w)
  \/ \E w \in Solo : InsertFail(w)
  \/ \E w \in Solo : HllAdd(w)
  \/ \E w \in Solo : HllAddFail(w)
  \/ \E w \in Solo : Ack(w)
  \/ \E w \in Solo : AckFail(w)
  \/ \E w \in Solo : Nack(w)
  \/ \E w \in Solo : NackFail(w)
  \/ \E w \in Solo : Interrupt(w)

Spec == Init /\ [][Next]_vars

\* ---------------------------------------------- several workers, one topic
\* Messages the generator sends for the students it registered (lines
\* 112-118: is_valid is True): every student on the first day, and the
\* first student on every day.
ConcTopic ==
  {m \in WellFormed :
     m.is_valid /\ (m.student_id = 1 \/ FromIsoFormat(m.timestamp) = EntryTime(0))}

\* The workers start after the generator has filled the Bloom filter: the
\* oracle's population is some set of students and stays as it is.
InitConc ==
  /\ pc = [w \in Workers |-> "receive"]
  /\ msg = [w \in Workers |-> NoMsg]
  /\ is_valid = [w \in Workers |-> FALSE]
  /\ calls = [w \in Workers |-> <<>>]
  /\ store = {}
  /\ hll = <<>>
  /\ bloom \in SUBSET Students
  /\ delivered = 0
  /\ insertCount = [k \in Keys |-> 0]
  /\ acks = 0
  /\ stats = NoStats
  /\ insights = NotRun
  /\ printed = NotRun
  /\ topic = NoTopic

\* Every worker of the shared subscription takes its steps in any order.
NextConc ==
  \/ \E w \in Workers, m \in ConcTopic : Receive(w, m)
  \/ \E w \in Workers : Parse(w)
  \/ \E w \in Workers : Oracle(w)
  \/ \E w \in Workers : OracleFail(w)
  \/ \E w \in Workers : Insert(w)
  \/ \E w \in Workers : InsertFail(w)
  \/ \E w \in Workers : HllAdd(w)
  \/ \E w \in Workers : HllAddFail(w)
  \/ \E w \in Workers : Ack(w)
  \/ \E w \in Workers : AckFail(w)
  \/ \E w \in Workers : Nack(w)
  \/ \E w \in Workers : NackFail(w)
  \/ \E w \in Workers : Interrupt(w)

SpecConc == InitConc /\ [][NextConc]_vars

\* ------------------------------------------- a topic followed to its end
\* The messages whose fate is followed: the entry of every student on the
\* first day, and a payload that json.loads rejects.
LiveTopic ==
  {Message(s, LectureOf(EntryTime(0)), EntryTime(0), TRUE) : s \in Students}
    \cup {d \in Damaged(Message(1, LectureOf(EntryTime(0)), EntryTime(0), TRUE)) : ~d.json}

\* As InitConc, with every message of the topic waiting for its delivery.
InitLive ==
  /\ pc = [w \in Workers |-> "receive"]
  /\ msg = [w \in Workers |-> NoMsg]
  /\ is_valid = [w \in Workers |-> FALSE]
  /\ calls = [w \in Workers |-> <<>>]
  /\ store = {}
  /\ hll = <<>>
  /\ bloom \in SUBSET Students
  /\ delivered = 0
  /\ insertCount = [k \in Keys |-> 0]
  /\ acks = 0
  /\ stats = NoStats
  /\ insights = NotRun
  /\ printed = NotRun
  /\ topic = [m \in LiveTopic |-> "waiting"]

\* One worker that nobody interrupts; every call it makes may raise.
NextLive ==
  \/ \E w \in Solo, m \in LiveTopic : Receive(w, m)
  \/ \E w \in Solo : Parse(w)
  \/ \E w \in Solo : Oracle(w)
  \/ \E w \in Solo : OracleFail(w)
  \/ \E w \in Solo : Insert(w)
  \/ \E w \in Solo : InsertFail(w)
  \/ \E w \in Solo : HllAdd(w)
  \/ \E w \in Solo : HllAddFail(w)
  \/ \E w \in Solo : Ack(w)
  \/ \E w \in Solo : AckFail(w)
  \/ \E w \in Solo : Nack(w)
  \/ \E w \in Solo : NackFail(w)

\* The transport delivers every waiting message again and again until it
\* is taken, and every call that is tried again and again succeeds in the
\* end: BF.EXISTS, the INSERT, PFADD, acknowledge, negative_acknowledge.
\* The worker itself runs on from line to line.
LiveFairness ==
  /\ \A w \in Solo, m \in LiveTopic : SF_vars(Receive(w, m))
  /\ \A w \in Solo :
       /\ WF_vars(Parse(w))
       /\ SF_vars(Oracle(w))
       /\ SF_vars(Insert(w))
       /\ SF_vars(HllAdd(w))
       /\ SF_vars(Ack(w))
       /\ SF_vars(Nack(w))

SpecLive == InitLive /\ [][NextLive]_vars /\ LiveFairness

\* ------------------------------------------------ get_attendance_stats
\* Line 151-152: hll_key from the lecture_id, then PFCOUNT.
StatsCount(l) ==
  /\ stats.phase = "idle"
  /\ stats' = [phase |-> "counted", lecture_id |-> l,
               unique_attendees |-> PfCount(hll, l), attendance_records |-> {}]
  /\ UNCHANGED <<topic, pc, msg, is_valid, calls, store, hll, bloom, delivered,
                 insertCount, acks, insights, printed>>

\* Lines 155-160: SELECT student_id, timestamp FROM attendance WHERE
\* lecture_id = %s, and line 164, list(rows).
SelectRows(tbl, l) ==
  {[student_id |-> r.student_id, timestamp |-> r.timestamp] :
     r \in {x \in tbl : x.lecture_id = l}}

StatsSelect ==
  /\ stats.phase = "counted"
  /\ stats' = [stats EXCEPT !.phase = "returned",
                            !.attendance_records = SelectRows(store, stats.lecture_id)]
  /\ UNCHANGED <<topic, pc, msg, is_valid, calls, store, hll, bloom, delivered,
                 insertCount, acks, insights, printed>>

\* The caller has the dictionary of lines 162-165 and drops it.
StatsReturn ==
  /\ stats.phase = "returned"
  /\ stats' = NoStats
  /\ UNCHANGED <<topic, pc, msg, is_valid, calls, store, hll, bloom, delivered,
                 insertCount, acks, insights, printed>>

\* The messages of the topic while somebody reads the statistics: those of
\* ConcTopic, which the oracle finds valid or not as the filter stands.
StatsTopic == ConcTopic

\* One worker and the generator as in Spec, and a reader calling
\* get_attendance_stats at any time; the two reads of the call are two
\* steps, and the worker may step between them.  Once the dictionary is
\* built nothing can change it, so the worker's steps are left out until
\* the caller has dropped it.
NextStats ==
  \/ \E l \in Lectures : StatsCount(l)
  \/ StatsSelect
  \/ StatsReturn
  \/ stats.phase # "returned" /\ \E s \in Students : BfAdd(s)
  \/ stats.phase # "returned" /\ \E w \in Solo, m \in StatsTopic : Receive(w, m)
  \/ stats.phase # "returned" /\ \E w \in Solo : Parse(w)
  \/ stats.phase # "returned" /\ \E w \in Solo : Oracle(w)
  \/ stats.phase # "returned" /\ \E w \in Solo : OracleFail(w)
  \/ stats.phase # "returned" /\ \E w \in Solo : Insert(w)
  \/ stats.phase # "returned" /\ \E w \in Solo : InsertFail(w)
  \/ stats.phase # "returned" /\ \E w \in Solo : HllAdd(w)
  \/ stats.phase # "returned" /\ \E w \in Solo : HllAddFail(w)
  \/ stats.phase # "returned" /\ \E w \in Solo : Ack(w)
  \/ stats.phase # "returned" /\ \E w \in Solo : AckFail(w)
  \/ stats.phase # "returned" /\ \E w \in Solo : Nack(w)
  \/ stats.phase # "returned" /\ \E w \in Solo : NackFail(w)
  \/ stats.phase # "returned" /\ \E w \in Solo : Interrupt(w)

SpecStats == Init /\ [][NextStats]_vars

\* ------------------------------------------------- attendance_analysis
\* The analyzer is a program of its own that reads the attendance table.
\* Its populations: students and the days of the past week they came on.
NumSubjects == 5
NumDays == 5

Subjects == 1..NumSubjects
Days == 0..(NumDays - 1)

\* Hours of the generator: a punctual entry, a late entry, and the time
\* from entry to exit.
PunctualHour == 8
LateHour == 9
StayHours == 3

\* late_threshold (line 67) and the argument of head() and tail().
LateThreshold == 9
TopN == 3

\* pd.to_datetime(...).dt.hour and .dt.day_name(); day 0 is a Monday.
Hour(t) == t % 24
DayNames == <<"Monday", "Tuesday", "Wednesday", "Thursday", "Friday", "Saturday", "Sunday">>
DayName(t) == DayNames[((t \div 24) % 7) + 1]

\* The rows of one student on one day: the entry and, when the exit event
\* was processed too, the exit.
Visit(s, d, hour, exits, v) ==
  {[student_id |-> s, lecture_id |-> LectureOf(t), timestamp |-> t, is_valid |-> v] :
     t \in {24 * d + hour} \cup (IF exits THEN {24 * d + hour + StayHours} ELSE {})}

\* A table in which student s came on the first a[s] days, the students
\* from lateFrom on enter late, those from invalidFrom on are unknown to
\* the oracle, and exits are stored or not.
TableOf(a, lateFrom, invalidFrom, exits) ==
  UNION {Visit(p[1], p[2], IF p[1] >= lateFrom THEN LateHour ELSE PunctualHour,
               exits, p[1] < invalidFrom) :
           p \in {q \in Subjects \X Days : q[2] < a[q[1]]}}

Turnouts ==
  {a \in [Subjects -> 0..NumDays] : \A s \in Subjects \ {NumSubjects} : a[s] >= a[s + 1]}

\* <<lateFrom, invalidFrom, exits>>: everybody punctual and known, with and
\* without exits; some late; some unknown; some late and unknown; nobody
\* punctual or known.
Profiles ==
  {<<NumSubjects + 1, NumSubjects + 1, TRUE>>, <<NumSubjects + 1, NumSubjects + 1, FALSE>>,
   <<2, NumSubjects + 1, FALSE>>, <<1, 2, TRUE>>, <<2, 2, FALSE>>, <<1, 1, TRUE>>}

Tables == {TableOf(a, p[1], p[2], p[3]) : a \in Turnouts, p \in Profiles}

\* An empty pandas Series / dict.
EmptyDict == [k \in {} |-> 0]

\* df.groupby(column).size(): one entry per value of the column.
SizeByStudent(rows) ==
  [s \in {r.student_id : r \in rows} |-> Cardinality({r \in rows : r.student_id = s})]
SizeByLecture(rows) ==
  [l \in {r.lecture_id : r \in rows} |-> Cardinality({r \in rows : r.lecture_id = l})]
SizeByDay(rows) ==
  [n \in {DayName(r.timestamp) : r \in rows} |->
     Cardinality({r \in rows : DayName(r.timestamp) = n})]

\* series[mask]: the entries of c whose key is in keep.
Restrict(c, keep) == [k \in keep |-> c[k]]

\* The values of a Series in ascending order.
RECURSIVE Ascending(_)
Ascending(c) ==
  IF DOMAIN c = {} THEN <<>>
  ELSE LET k == CHOOSE x \in DOMAIN c : \A y \in DOMAIN c : c[x] <= c[y]
       IN <<c[k]>> \o Ascending(Restrict(c, DOMAIN c \ {k}))

\* Twice Series.median() of a non-empty Series: the middle value, or the
\* mean of the two middle values.
Median2(c) ==
  LET v == Ascending(c)
      n == Len(v)
  IN IF n % 2 = 1 THEN 2 * v[(n + 1) \div 2] ELSE v[n \div 2] + v[(n \div 2) + 1]

RECURSIVE Sum(_)
Sum(v) == IF v = <<>> THEN 0 ELSE Head(v) + Sum(Tail(v))

\* n * (n - 1) times Series.var() (ddof = 1) of a Series of n >= 2 values.
VarNumerator(c) ==
  LET v == Ascending(c)
  IN Len(v) * Sum([i \in DOMAIN v |-> v[i] * v[i]]) - Sum(v) * Sum(v)

\* Lines 66-69: the students who are late more often than the median.
late_students(rows) == SizeByStudent({r \in rows : Hour(r.timestamp) >= LateThreshold})

\* frequent_late with >= in place of >.
frequent_late_or_equal(rows) ==
  LET c == late_students(rows)
  IN Restrict(c, {s \in DOMAIN c : 2 * c[s] >= Median2(c)})

\* Line 69: late_students[late_students > late_students.median()]; the
\* median of an empty Series is NaN and nothing is greater than NaN.
frequent_late(rows) ==
  LET c == late_students(rows)
  IN Restrict(c, {s \in DOMAIN c : 2 * c[s] > Median2(c)})

\* Line 88: groupby('lecture_id').size().sort_values(ascending=False).  The
\* sort is not stable: lectures of equal size come in any order.
RECURSIVE SortedDescending(_)
SortedDescending(c) ==
  IF DOMAIN c = {} THEN {<<>>}
  ELSE UNION {{<<[lecture_id |-> k, size |-> c[k]]>> \o rest :
                 rest \in SortedDescending(Restrict(c, DOMAIN c \ {k}))} :
              k \in {x \in DOMAIN c : \A y \in DOMAIN c : c[x] >= c[y]}}

lecture_attendance(rows) == SortedDescending(SizeByLecture(rows))

\* Series.head(n): the first n entries, all of them when there are fewer.
HeadOf(sorted, n) == SubSeq(sorted, 1, IF Len(sorted) < n THEN Len(sorted) ELSE n)

\* TailOf that leaves out what head(n) already took.
TailOfRest(sorted, n) ==
  SubSeq(sorted, (IF Len(sorted) - n < n THEN n ELSE Len(sorted) - n) + 1, Len(sorted))

\* Series.tail(n): the last n entries, all of them when there are fewer.
TailOf(sorted, n) ==
  SubSeq(sorted, (IF Len(sorted) < n THEN 0 ELSE Len(sorted) - n) + 1, Len(sorted))

\* Lines 100-103: the students whose number of rows exceeds median + std.
\* std() of one value is NaN; for more, c > median + std is decided in
\* exact arithmetic: c - median > 0 and (c - median)^2 > var.
student_consistency(rows) == SizeByStudent(rows)

consistent_students(rows) ==
  LET c == student_consistency(rows)
      n == Cardinality(DOMAIN c)
  IN IF n < 2 THEN EmptyDict
     ELSE Restrict(c, {s \in DOMAIN c :
            /\ 2 * c[s] > Median2(c)
            /\ (2 * c[s] - Median2(c)) * (2 * c[s] - Median2(c)) * n * (n - 1)
                 > 4 * VarNumerator(c)})

\* Line 112: df[~df['is_valid']].groupby('student_id').size().
invalid_attempts(rows) == SizeByStudent({r \in rows : ~r.is_valid})

\* Line 117: to_dict() if not invalid_attempts.empty else {}.
InvalidData(rows) ==
  IF DOMAIN invalid_attempts(rows) # {} THEN invalid_attempts(rows) ELSE EmptyDict

\* Lines 71-75, 81-85, 90-97, 105-109, 114-118: the five dictionaries.
Latecomers(rows) ==
  [title |-> "Habitual Latecomers",
   description |-> <<"Found", Cardinality(DOMAIN frequent_late(rows)),
                     "students who frequently arrive after", LateThreshold, ":00 AM">>,
   data |-> frequent_late(rows)]

ByDay(rows) ==
  [title |-> "Attendance by Day",
   description |-> <<"Distribution of attendance across different days">>,
   data |-> SizeByDay(rows)]

Rankings(sorted) ==
  [title |-> "Lecture Attendance Rankings",
   description |-> <<"Most and least attended lectures">>,
   data |-> [most_attended |-> HeadOf(sorted, TopN), least_attended |-> TailOf(sorted, TopN)]]

Consistent(rows) ==
  [title |-> "Most Consistent Attendees",
   description |-> <<"Students with above-average attendance">>,
   data |-> consistent_students(rows)]

Invalid(rows) ==
  [title |-> "Invalid Attendance Attempts",
   description |-> <<"Number of invalid attendance attempts by student ID">>,
   data |-> InvalidData(rows)]

\* InsightsOf that leaves the last insight out when nothing was invalid.
InsightsOfSkipEmpty(rows, sorted) ==
  <<Latecomers(rows), ByDay(rows), Rankings(sorted), Consistent(rows)>>
    \o (IF DOMAIN invalid_attempts(rows) # {} THEN <<Invalid(rows)>> ELSE <<>>)

\* Lines 63-120: the list generate_insights builds for a non-empty frame.
InsightsOf(rows, sorted) ==
  <<Latecomers(rows), ByDay(rows), Rankings(sorted), Consistent(rows), Invalid(rows)>>

\* generate_insights: lines 58-61 for a table without rows, else the list.
GenerateInsights ==
  /\ insights = NotRun
  /\ IF store = {}
       THEN insights' = <<>>
       ELSE \E sorted \in lecture_attendance(store) : insights' = InsightsOf(store, sorted)
  /\ UNCHANGED <<topic, pc, msg, is_valid, calls, store, hll, bloom, delivered,
                 insertCount, acks, stats, printed>>

\* Line 132: isinstance(data, dict) and data.
HasData(insight) ==
  IF insight.title = "Lecture Attendance Rankings" THEN TRUE ELSE DOMAIN insight.data # {}

\* Lines 128-142: what print_insights prints for one insight; the lines of
\* the items are kept as one entry holding the dictionary.
Block(insight) ==
  <<<<"===", insight.title, "===">>, insight.description, <<"Data:">>,
    IF HasData(insight) THEN <<"items", insight.data>> ELSE <<"No data available">>,
    <<"-", 50>>>>

RECURSIVE Blocks(_)
Blocks(list) == IF list = <<>> THEN <<>> ELSE Block(Head(list)) \o Blocks(Tail(list))

NoDataNotice == <<"No insights available - no attendance data found.">>

\* RenderOf that iterates whatever it is given.
RenderOfIterating(list) == Blocks(list)

\* Lines 124-126, then the loop.
RenderOf(list) == IF list = <<>> THEN <<NoDataNotice>> ELSE Blocks(list)

\* print_insights(insights), as __main__ calls it after generate_insights.
PrintInsights ==
  /\ insights # NotRun
  /\ printed = NotRun
  /\ printed' = RenderOf(insights)
  /\ UNCHANGED <<topic, pc, msg, is_valid, calls, store, hll, bloom, delivered,
                 insertCount, acks, stats, insights>>

\* The analyzer finds the table as the pipeline left it; no worker runs.
InitAnalysis ==
  /\ pc = [w \in Workers |-> "stopped"]
  /\ msg = [w \in Workers |-> NoMsg]
  /\ is_valid = [w \in Workers |-> FALSE]
  /\ calls = [w \in Workers |-> <<>>]
  /\ store \in Tables
  /\ hll = <<>>
  /\ bloom = {}
  /\ delivered = 0
  /\ insertCount = [k \in Keys |-> 0]
  /\ acks = 0
  /\ stats = NoStats
  /\ insights = NotRun
  /\ printed = NotRun
  /\ topic = NoTopic

NextAnalysis ==
  \/ GenerateInsights
  \/ PrintInsights

SpecAnalysis == InitAnalysis /\ [][NextAnalysis]_vars

TypeOK ==
  /\ \A w \in Workers : pc[w] \in {"receive", "parse", "oracle", "insert", "pfadd", "ack", "nack", "stopped", "crashed"}
  /\ delivered \in 0..MaxDeliveries
  /\ bloom \subseteq Students

\* ------------------------------------------------- reading the call log
\* Positions in the log of worker w's current delivery where op was called.
Ops(w, op) == {i \in DOMAIN calls[w] : calls[w][i].op = op}

\* ... where op was called and returned without raising.
OkOps(w, op) == {i \in Ops(w, op) : calls[w][i].ok}

\* ... where op was called and raised.
FailedOps(w, op) == {i \in Ops(w, op) : ~calls[w][i].ok}

\* Worker w holds a delivery (it has received at least once).
HasDelivery(w) == msg[w] # NoMsg

\* The worker is back at consumer.receive() after handling a delivery.
BackAtReceive(w) == pc[w] = "receive" /\ HasDelivery(w)

\* The handling of w's delivery ran to its end: the worker is back at
\* receive, or negative_acknowledge raised and took the loop down.
HandlingOver(w) == BackAtReceive(w) \/ pc[w] = "crashed"

RowsOf(k) == {r \in store : PrimaryKey(r) = k}

\* ------------------------------------------------------------------- C1
\* C1: a delivery is acknowledged only if, earlier in the handling of that
\* same delivery, the INSERT of its row completed without error and, when
\* the computed is_valid is true, the PFADD of its student under its
\* lecture completed without error as well.
AckOnlyAfterStores ==
  \A w \in Workers : \A i \in Ops(w, "ack") :
    /\ \E j \in OkOps(w, "insert") : j < i
    /\ RowsOf(PrimaryKey(Row(w))) # {}
    /\ is_valid[w] =>
         /\ \E j \in OkOps(w, "pfadd") : j < i
         /\ msg[w].lecture_id \in DOMAIN hll
         /\ msg[w].student_id \in hll[msg[w].lecture_id]

\* A valid event has been acknowledged.
AckOnlyAfterStoresWitness ==
  \E w \in Workers : OkOps(w, "ack") # {} /\ is_valid[w]

\* ------------------------------------------------------------------- C2
\* C2: once the same event (same lecture_id, timestamp, student_id) has
\* been persisted two or more times, the table holds exactly one row with
\* that key.
IdempotentPersistence ==
  \A k \in Keys : insertCount[k] >= 2 => Cardinality(RowsOf(k)) = 1

\* An event was persisted twice, and the oracle grew in between: the row in
\* the table is now valid although the first write was not.
IdempotentPersistenceWitness ==
  \E k \in Keys :
    /\ insertCount[k] >= 2
    /\ \E r \in RowsOf(k) : r.is_valid
    /\ \E w \in Workers : BackAtReceive(w) /\ PrimaryKey(Row(w)) = k /\ OkOps(w, "ack") # {}

\* ------------------------------------------------------------------- C3
\* A step of lines 103-129 raised while w handled its delivery.
StepFailed(w) ==
  \E op \in {"parse", "bf_exists", "insert", "pfadd"} : FailedOps(w, op) # {}

\* C3: when deserialization, the oracle query, the INSERT or the PFADD
\* fails, the delivery is never acknowledged, and the handler of line 134
\* calls negative_acknowledge for it: once the handling is over the call
\* has been made.
FailureIsNacked ==
  \A w \in Workers : StepFailed(w) =>
    /\ Ops(w, "ack") = {}
    /\ HandlingOver(w) => Ops(w, "nack") # {}
    /\ pc[w] \in {"nack", "receive", "crashed", "stopped"}

\* The INSERT raised and the worker is back at receive.
FailureIsNackedWitness ==
  \E w \in Workers : BackAtReceive(w) /\ FailedOps(w, "insert") # {} /\ OkOps(w, "nack") # {}

\* ------------------------------------------------------------------- C4
\* The worker has passed lines 127-129 without an exception.
PastAggregation(w) == pc[w] = "ack" \/ Ops(w, "ack") # {}

EstimatorOnlyValidState ==
  /\ \A l \in DOMAIN hll : hll[l] \subseteq bloom
  /\ \A w \in Workers :
       /\ Ops(w, "pfadd") # {} => is_valid[w]
       /\ PastAggregation(w) => (is_valid[w] <=> Ops(w, "pfadd") # {})

EstimatorOnlyValidStep ==
  hll' # hll =>
    \E w \in Workers :
      /\ pc[w] = "pfadd"
      /\ is_valid[w]
      /\ msg[w].student_id \in bloom
      /\ hll' = PfAdd(hll, msg[w].lecture_id, msg[w].student_id)

\* C4: invalid events never influence the estimate.  A student the oracle
\* does not know is in no lecture's HyperLogLog, a step changes a
\* HyperLogLog only as the PFADD of a delivery whose is_valid is true, and
\* a delivery gets a PFADD if and only if its is_valid is true.
EstimatorOnlyValid ==
  [](EstimatorOnlyValidState) /\ [][EstimatorOnlyValidStep]_vars

\* An invalid event has been persisted and acknowledged while no estimator
\* holds its student.
EstimatorOnlyValidWitness ==
  \E w \in Workers :
    /\ OkOps(w, "ack") # {}
    /\ ~is_valid[w]
    /\ OkOps(w, "insert") # {}
    /\ \A l \in DOMAIN hll : msg[w].student_id \notin hll[l]

\* ------------------------------------------------------------------- C5
\* C5: once a row is in the table its is_valid never changes.
IsValidImmutable ==
  [][\A r \in store : r \in store']_vars

\* ------------------------------------------------------------------- C6
\* C6: a worker stopped by the interrupt while it held a delivery has made
\* that delivery's acknowledgment decision; a delivery whose INSERT and
\* PFADD both succeeded is not left without an acknowledgment, and none is
\* acknowledged without having been persisted.
InterruptCompletesDecision ==
  \A w \in Workers : (pc[w] = "stopped" /\ HasDelivery(w)) =>
    /\ Ops(w, "ack") \cup Ops(w, "nack") # {}
    /\ (OkOps(w, "insert") # {} /\ (is_valid[w] => OkOps(w, "pfadd") # {}))
         => Ops(w, "ack") # {}
    /\ Ops(w, "ack") # {} => OkOps(w, "insert") # {}

\* ------------------------------------------------------------------- C7
\* C7: every acknowledged delivery performed exactly one INSERT, whose
\* is_valid is the oracle's answer for the delivery's student (for valid
\* and invalid events alike), and at most one PFADD.
AckedWroteOnce ==
  \A w \in Workers : Ops(w, "ack") # {} =>
    /\ Cardinality(Ops(w, "insert")) = 1
    /\ Cardinality(OkOps(w, "bf_exists")) = 1
    /\ \A i \in Ops(w, "insert") : \A j \in OkOps(w, "bf_exists") :
         j < i /\ calls[w][i].ok /\ calls[w][i].valid = calls[w][j].valid
    /\ Cardinality(Ops(w, "pfadd")) <= 1

\* An acknowledged delivery whose producer said is_valid = true and whose
\* row was written with is_valid = false.
AckedWroteOnceWitness ==
  \E w \in Workers :
    /\ OkOps(w, "ack") # {}
    /\ msg[w].is_valid
    /\ \E i \in OkOps(w, "insert") : ~calls[w][i].valid

\* ------------------------------------------------------------------- C8
\* The four fields the claim calls required.
RequiredFields == {"student_id", "lecture_id", "timestamp", "event_type"}

\* The payload does not parse (no JSON, or a timestamp that is not ISO
\* text) or lacks one of the fields of `required`.
MalformedFor(m, required) ==
  \/ ~m.json
  \/ required \ m.fields # {}
  \/ m.timestamp[1] # "iso"

\* The delivery of w was refused: no acknowledge, no write to either
\* store, and negative_acknowledge called by the time the handling is over.
Refused(w) ==
  /\ Ops(w, "ack") = {}
  /\ Ops(w, "insert") = {}
  /\ Ops(w, "pfadd") = {}
  /\ HandlingOver(w) => Ops(w, "nack") # {}

Parsed(w) == Ops(w, "parse") # {}

\* C8 as stated: a message that fails to parse or lacks any of student_id,
\* lecture_id, timestamp or event_type is negatively acknowledged, never
\* acknowledged, and leaves the table and every estimator unchanged.
MalformedRefused ==
  \A w \in Workers :
    (HasDelivery(w) /\ Parsed(w) /\ MalformedFor(msg[w], RequiredFields)) => Refused(w)

\* C8 amended: the fields whose absence makes a message malformed are
\* student_id, lecture_id and timestamp; such a message, or one that does
\* not parse, is refused.  A message that lacks only event_type is not
\* malformed: its parse step succeeds.
MalformedRefusedAmended ==
  \A w \in Workers : (HasDelivery(w) /\ Parsed(w)) =>
    /\ MalformedFor(msg[w], RequiredFields \ {"event_type"}) =>
         Refused(w) /\ FailedOps(w, "parse") # {}
    /\ ~MalformedFor(msg[w], RequiredFields \ {"event_type"}) => OkOps(w, "parse") # {}

\* A message without timestamp was negatively acknowledged, and the table
\* is still empty.
MalformedRefusedAmendedWitness ==
  \E w \in Workers :
    /\ BackAtReceive(w)
    /\ "timestamp" \notin msg[w].fields
    /\ OkOps(w, "nack") # {}
    /\ store = {}

\* ------------------------------------------------------------------- C9
Completions(w) == Ops(w, "ack") \cup Ops(w, "nack")

StoreCalls(w) == Ops(w, "bf_exists") \cup Ops(w, "insert") \cup Ops(w, "pfadd")

\* C9 as stated: at the next receive the worker has issued exactly one
\* completion call for the delivery it held (acknowledge or
\* negative_acknowledge, never both, never neither), after all its store
\* calls.
OneCompletionCall ==
  \A w \in Workers : BackAtReceive(w) =>
    /\ Cardinality(Completions(w)) = 1
    /\ \A i \in StoreCalls(w) : \A j \in Completions(w) : i < j

\* C9 amended: at the next receive exactly one completion call has
\* returned without error for the delivery the worker held, after all its
\* store calls; negative_acknowledge is called at most once, acknowledge at
\* most once, and both only when acknowledge raised first.
OneCompletionCallAmended ==
  \A w \in Workers : BackAtReceive(w) =>
    /\ Cardinality(OkOps(w, "ack") \cup OkOps(w, "nack")) = 1
    /\ Cardinality(Ops(w, "ack")) <= 1
    /\ Cardinality(Ops(w, "nack")) <= 1
    /\ (Ops(w, "ack") # {} /\ Ops(w, "nack") # {}) =>
         \A i \in Ops(w, "ack") : \A j \in Ops(w, "nack") : i < j /\ ~calls[w][i].ok
    /\ \A i \in StoreCalls(w) : \A j \in Completions(w) : i < j

\* acknowledge raised for a persisted delivery, negative_acknowledge
\* followed, and the worker is back at receive.
OneCompletionCallAmendedWitness ==
  \E w \in Workers :
    /\ BackAtReceive(w)
    /\ FailedOps(w, "ack") # {}
    /\ OkOps(w, "nack") # {}
    /\ OkOps(w, "insert") # {}

\* ------------------------------------------------------------------ C10
\* C10: a failure while handling one message (parse, oracle, INSERT, PFADD
\* or the completion call) never terminates the worker loop.
LoopSurvivesFailure ==
  \A w \in Workers : pc[w] # "crashed"

\* ------------------------------------------------------------------ C11
\* The keys that have been written at least once.
InsertedKeys == {k \in Keys : insertCount[k] > 0}

\* The row of key k with validity v.
RowOfKey(k, v) ==
  [student_id |-> k[3], lecture_id |-> k[1], timestamp |-> k[2], is_valid |-> v]

\* The members of lecture l's estimator; none when the key does not exist.
Estimator(l) == IF l \in DOMAIN hll THEN hll[l] ELSE {}

\* All the orders in which the elements of S can be processed.
RECURSIVE Orders(_)
Orders(S) ==
  IF S = {} THEN {<<>>}
  ELSE UNION {{<<x>> \o rest : rest \in Orders(S \ {x})} : x \in S}

\* The stores after one worker processed the events of `order` one after
\* the other, each once, starting from the table tbl and the estimators h.
RECURSIVE Serial(_, _, _)
Serial(order, tbl, h) ==
  IF order = <<>> THEN [store |-> tbl, hll |-> h]
  ELSE LET k == Head(order)
           v == BfExists(k[3])
       IN Serial(Tail(order),
                 StoreInsert(tbl, RowOfKey(k, v)),
                 IF AfterInsert(v) = "pfadd" THEN PfAdd(h, k[1], k[3]) ELSE h)

\* Every delivery made so far has been acknowledged.
AllAcknowledged == delivered > 0 /\ acks = delivered

\* C11: with several workers on the subscription and a fixed oracle
\* population, whatever the interleaving of their steps and the order of
\* the deliveries, once all deliveries are acknowledged the table holds
\* exactly one row per distinct key, each lecture's estimator holds exactly
\* the students of that lecture's valid events, and this is the state that
\* processing the distinct events once, serially, in any order, ends in.
ConcurrentEqualsSerial ==
  AllAcknowledged =>
    /\ \A w \in Workers : HasDelivery(w) => PrimaryKey(Row(w)) \in InsertedKeys
    /\ store = {RowOfKey(k, k[3] \in bloom) : k \in InsertedKeys}
    /\ \A l \in Lectures :
         Estimator(l) = {k[3] : k \in {x \in InsertedKeys : x[1] = l /\ x[3] \in bloom}}
    /\ DOMAIN hll \subseteq Lectures
    /\ \A order \in Orders(InsertedKeys) :
         Serial(order, {}, <<>>) = [store |-> store, hll |-> hll]

\* The same valid event went to both workers and both acknowledged it.
ConcurrentEqualsSerialWitness ==
  /\ AllAcknowledged
  /\ msg["w1"] = msg["w2"]
  /\ \A w \in Workers : OkOps(w, "ack") # {} /\ is_valid[w]

\* ------------------------------------------------------------------ C12
\* C12: no step of the pipeline, successful or failed, lowers a lecture's
\* distinct-attendee count, removes a member from an estimator or deletes
\* an estimator that exists.
EstimatorMonotone ==
  [][/\ \A l \in DOMAIN hll : l \in DOMAIN hll' /\ hll[l] \subseteq hll'[l]
     /\ \A l \in Lectures : PfCount(hll', l) >= PfCount(hll, l)]_vars

\* A lecture has an attendee counted and a later PFADD for that lecture
\* raised; the count is still there.
EstimatorMonotoneWitness ==
  \E w \in Workers :
    /\ BackAtReceive(w)
    /\ FailedOps(w, "pfadd") # {}
    /\ PfCount(hll, msg[w].lecture_id) >= 1

\* ------------------------------------------------------------------ C13
\* Message m with the producer's is_valid inverted.
Flip(m) == [m EXCEPT !.is_valid = ~@]

\* C13: the is_valid a producer puts into a message is ignored.  From any
\* state of the table, the oracle and the estimators, handling a message
\* and handling the message that differs only in that field write the same
\* row, leave the same estimators and end with the same completion call;
\* and the state a worker reached by acknowledging a message is the one
\* handling the inverted message yields.
ProducerFlagIgnored ==
  \A w \in Workers : HasDelivery(w) =>
    /\ Process(msg[w], store, hll) = Process(Flip(msg[w]), store, hll)
    /\ (OkOps(w, "ack") # {} /\ is_valid[w] = BfExists(msg[w].student_id)) =>
         Process(Flip(msg[w]), store, hll)
           = [store |-> store, hll |-> hll, completion |-> "acknowledge"]

\* A message that said is_valid = false was acknowledged and its row is
\* valid.
ProducerFlagIgnoredWitness ==
  \E w \in Workers :
    /\ OkOps(w, "ack") # {}
    /\ ~msg[w].is_valid
    /\ RowOf(msg[w], TRUE) \in store
    /\ msg[w].student_id \in Estimator(msg[w].lecture_id)

EachProcessedOnce ==
  /\ AllAcknowledged
  /\ \A k \in Keys : insertCount[k] <= 1

\* The students of the events of lecture l that the oracle found valid.
ValidAttendees(l) ==
  {r.student_id : r \in {x \in store : x.lecture_id = l /\ x.is_valid}}

\* C14: when get_attendance_stats(L) reads the count at a moment where
\* every event delivered was processed and acknowledged exactly once, the
\* count is the number of distinct students among the valid events of L.
SnapshotCountExact ==
  [][(stats.phase = "idle" /\ stats'.phase = "counted" /\ EachProcessedOnce) =>
       stats'.unique_attendees = Cardinality(ValidAttendees(stats'.lecture_id))]_vars

\* The statistics of a lecture were read after the events of two valid
\* students were processed once each, and the count says two.
SnapshotCountExactWitness ==
  /\ stats.phase = "returned"
  /\ EachProcessedOnce
  /\ delivered = MaxDeliveries
  /\ Cardinality(ValidAttendees(stats.lecture_id)) >= 2
  /\ stats.unique_attendees = Cardinality(ValidAttendees(stats.lecture_id))

\* ------------------------------------------------------------------ C15
\* C15: get_attendance_stats(L) takes its count from the estimator kept
\* under L's key, as it is when the count is read, and its records are one
\* per row the store holds for L when the rows are read: rows of valid and
\* of invalid events alike, and of no other lecture.
SnapshotSources ==
  [][/\ (stats.phase = "idle" /\ stats'.phase = "counted") =>
          stats'.unique_attendees = Cardinality(Estimator(stats'.lecture_id))
     /\ (stats.phase = "counted" /\ stats'.phase = "returned") =>
          /\ stats'.lecture_id = stats.lecture_id
          /\ stats'.unique_attendees = stats.unique_attendees
          /\ stats'.attendance_records
               = {[student_id |-> k[3], timestamp |-> k[2]] :
                    k \in {x \in Keys : x[1] = stats.lecture_id /\ RowsOf(x) # {}}}
          /\ Cardinality(stats'.attendance_records)
               = Cardinality({r \in store : r.lecture_id = stats.lecture_id})]_vars

\* Statistics of a lecture whose rows hold a student the estimator does not
\* count, while another lecture has rows too.
SnapshotSourcesWitness ==
  /\ stats.phase = "returned"
  /\ \E r \in store : r.lecture_id = stats.lecture_id /\ ~r.is_valid
  /\ \E r \in store : r.lecture_id # stats.lecture_id
  /\ stats.attendance_records # {}
  /\ stats.unique_attendees = 0

\* ------------------------------------------------------------------ C16
\* C16: on a table without rows generate_insights returns the empty list,
\* and print_insights of the empty list prints the no-data notice and
\* nothing else.
EmptyStoreNoInsights ==
  store = {} =>
    /\ insights \in {NotRun, <<>>}
    /\ printed # NotRun =>
         /\ Len(printed) = 1
         /\ printed[1] = <<"No insights available - no attendance data found.">>

\* The analyzer ran and printed over a table without rows.
EmptyStoreNoInsightsWitness ==
  store = {} /\ insights = <<>> /\ printed # NotRun

\* ------------------------------------------------------------------ C17
\* The number of rows of each student at or after nine o'clock.
LateCounts ==
  [s \in Subjects |-> Cardinality({r \in store : r.student_id = s /\ Hour(r.timestamp) >= 9})]

\* The i-th smallest of the counts c of the students in late: the least
\* count that at least i of them do not exceed.
KthCount(c, late, i) ==
  CHOOSE v \in {c[s] : s \in late} :
    /\ Cardinality({s \in late : c[s] <= v}) >= i
    /\ \A u \in {c[s] : s \in late} :
         Cardinality({s \in late : c[s] <= u}) >= i => v <= u

\* Twice the median of the counts c of the students in late.
TwiceMedian(c, late) ==
  KthCount(c, late, (Cardinality(late) + 1) \div 2)
    + KthCount(c, late, (Cardinality(late) + 2) \div 2)

\* C17: Habitual Latecomers holds, with their late counts, exactly the
\* students whose late count is strictly greater than the median of the
\* late counts of the students with a late row; a student whose count is
\* the median is not among them.
LatecomersStrictlyAboveMedian ==
  (insights # NotRun /\ store # {}) =>
    LET c == LateCounts
        late == {s \in Subjects : c[s] > 0}
        found == insights[1].data
    IN /\ late = {} => found = EmptyDict
       /\ late # {} =>
            LET m2 == TwiceMedian(c, late)
            IN DOMAIN found = {s \in late : 2 * c[s] > m2}
       /\ \A s \in DOMAIN found : found[s] = c[s]
       /\ insights[1].description[2] = Cardinality(DOMAIN found)

\* Late counts 5, 5 and 1: the median is 5 and nobody is reported.
LatecomersStrictlyAboveMedianWitness ==
  /\ insights # NotRun
  /\ Cardinality({s \in Subjects : LateCounts[s] > 0}) = 3
  /\ Cardinality({s \in Subjects : LateCounts[s] = 5}) = 2
  /\ Cardinality({s \in Subjects : LateCounts[s] = 1}) = 1
  /\ TwiceMedian(LateCounts, {s \in Subjects : LateCounts[s] > 0}) = 10
  /\ insights[1].data = EmptyDict

\* ------------------------------------------------------------------ C18
\* The number of rows of each lecture that has rows.
LectureCounts ==
  [l \in {r.lecture_id : r \in store} |-> Cardinality({r \in store : r.lecture_id = l})]

\* list is a run of n entries of distinct lectures with their row counts,
\* the larger counts first.
RankedRun(list, c, n) ==
  /\ Len(list) = n
  /\ \A i \in DOMAIN list :
       list[i].lecture_id \in DOMAIN c /\ list[i].size = c[list[i].lecture_id]
  /\ \A i, j \in DOMAIN list :
       i < j => list[i].lecture_id # list[j].lecture_id /\ list[i].size >= list[j].size

\* C18: most_attended is the first three and least_attended the last three
\* entries of one descending ranking of the lectures by their number of
\* rows (all of them when there are three lectures or fewer, the two lists
\* then being the same), so that with four or five lectures the lists
\* share the middle of the ranking.
RankingsHeadAndTail ==
  (insights # NotRun /\ store # {}) =>
    LET c == LectureCounts
        n == Cardinality(DOMAIN c)
        k == IF n < 3 THEN n ELSE 3
        most == insights[3].data.most_attended
        least == insights[3].data.least_attended
    IN /\ RankedRun(most, c, k)
       /\ RankedRun(least, c, k)
       /\ \A l \in DOMAIN c \ {most[i].lecture_id : i \in DOMAIN most} :
            c[l] <= most[k].size
       /\ \A l \in DOMAIN c \ {least[i].lecture_id : i \in DOMAIN least} :
            c[l] >= least[1].size
       /\ \A i \in DOMAIN most, j \in DOMAIN least :
            (i = n - k + j) <=> (most[i].lecture_id = least[j].lecture_id)
       /\ n <= 3 =>
            /\ most = least
            /\ {most[i].lecture_id : i \in DOMAIN most} = DOMAIN c

\* Five lectures of 10, 8, 6, 4 and 2 rows: most_attended has those of 10,
\* 8 and 6 rows and least_attended those of 6, 4 and 2.
RankingsHeadAndTailWitness ==
  /\ insights # NotRun
  /\ {LectureCounts[l] : l \in DOMAIN LectureCounts} = {10, 8, 6, 4, 2}
  /\ Cardinality(DOMAIN LectureCounts) = 5
  /\ [i \in 1..3 |-> insights[3].data.most_attended[i].size] = <<10, 8, 6>>
  /\ [i \in 1..3 |-> insights[3].data.least_attended[i].size] = <<6, 4, 2>>
  /\ insights[3].data.most_attended[3] = insights[3].data.least_attended[1]

\* ------------------------------------------------------------------ C19
\* C19: for a table with rows generate_insights returns five insights,
\* titled Habitual Latecomers, Attendance by Day, Lecture Attendance
\* Rankings, Most Consistent Attendees and Invalid Attendance Attempts in
\* this order, whichever of them have nothing to report; the last one
\* holds the number of invalid rows of each student that has any, an empty
\* mapping when no row is invalid.
FiveInsightsInOrder ==
  (insights # NotRun /\ store # {}) =>
    /\ Len(insights) = 5
    /\ [i \in 1..5 |-> insights[i].title]
         = <<"Habitual Latecomers", "Attendance by Day", "Lecture Attendance Rankings",
             "Most Consistent Attendees", "Invalid Attendance Attempts">>
    /\ DOMAIN insights[5].data = {r.student_id : r \in {x \in store : ~x.is_valid}}
    /\ \A s \in DOMAIN insights[5].data :
         insights[5].data[s] = Cardinality({r \in store : r.student_id = s /\ ~r.is_valid})
    /\ (\A r \in store : r.is_valid) => insights[5].data = EmptyDict

\* A table with rows, none of them invalid and none of them late, of one
\* student only: three of the five insights have nothing to report.
FiveInsightsInOrderWitness ==
  /\ insights # NotRun
  /\ store # {}
  /\ \A r \in store : r.is_valid /\ Hour(r.timestamp) < 9 /\ r.student_id = 1
  /\ insights[1].data = EmptyDict
  /\ insights[4].data = EmptyDict
  /\ insights[5].data = EmptyDict
  /\ printed # NotRun

\* ------------------------------------------------------------------ C21
\* Message m is acknowledged, its row is in the table, and its student is
\* in its lecture's estimator when the oracle knows the student.
Settled(m) ==
  /\ topic[m] = "acknowledged"
  /\ RowOf(m, BfExists(m.student_id)) \in store
  /\ BfExists(m.student_id) => m.student_id \in Estimator(m.lecture_id)

\* C21: when the transport delivers a negatively acknowledged message
\* again and the oracle, the table and the estimator answer in the end,
\* every message that parses is eventually acknowledged with its row
\* stored and, if its student is valid, counted; a message that does not
\* parse is never acknowledged, and negative_acknowledge is called for it
\* on every delivery.
EventuallySettled ==
  /\ \A m \in LiveTopic : ParseOk(m) => <>Settled(m)
  /\ [](\A m \in LiveTopic : ~ParseOk(m) => topic[m] # "acknowledged")
  /\ [](\A w \in Workers :
          (HasDelivery(w) /\ ~ParseOk(msg[w]) /\ HandlingOver(w)) => Ops(w, "nack") # {})
====
